---- MODULE Spec2Model ----
(***************************************************************************)
(* Model of the ts-ev Emitter (src/index.ts): the listener table _evinfo,  *)
(* the registration methods on / prependOn / once / prependOnce, the three *)
(* forms of off, and the dispatch loop of emit, with listeners that may    *)
(* call back into the emitter while the loop is running.                   *)
(***************************************************************************)
EXTENDS Integers, Sequences, FiniteSets, TLC

(***************************************************************************)
(* Bounds of the model.                                                    *)
(***************************************************************************)
\* number of registrations over one run (on/prependOn/once/prependOnce calls)
MaxReg == 3
\* number of emit calls that may be on the call stack at once
MaxDepth == 2

\* event keys
Events == {"foo", "bar"}
\* identities of the listener functions the program passes to the emitter
Listeners == {1, 2}
\* payloads handed to emit (one value stands for the argument list)
Payloads == {1, 2}
\* filter options: NoFilter is an absent filter, a payload p is the predicate
\* (args) => args equals p
NoFilter == 0
Filters == {NoFilter} \cup Payloads

VARIABLES
  evinfo,    \* this._evinfo: event key -> array of [listener, opts]
  nextId,    \* identity of the next [listener, opts] array to be created
  stack,     \* the emit calls in progress, innermost last
  promises,  \* promise of each promise-form registration, see Pending
  offGone,   \* the entries removed by calls of off, with the call's form
  last       \* the call that has just returned, as the specification observes it

vars == <<evinfo, nextId, stack, promises, offGone, last>>

(***************************************************************************)
(* The listener table as a partial map                                     *)
(***************************************************************************)
\* this._evinfo[ev], with undefined read as no entries
ListOf(t, ev) == IF ev \in DOMAIN t THEN t[ev] ELSE <<>>

\* this._evinfo[ev] = l
Put(t, ev, l) == [k \in DOMAIN t \cup {ev} |-> IF k = ev THEN l ELSE t[k]]

\* a delete that drops every key
DeleteAll(t, ev) == [k \in {} |-> <<>>]

\* delete this._evinfo[ev]
Delete(t, ev) == [k \in DOMAIN t \ {ev} |-> t[k]]

\* = {} of the field initialiser
EmptyTable == [k \in {} |-> <<>>]

\* the [listener, opts] arrays held by a table / a list
IdsOfList(l) == {l[i].id : i \in 1..Len(l)}
IdsOf(t) == UNION {IdsOfList(t[k]) : k \in DOMAIN t}

(***************************************************************************)
(* Registration                                                            *)
(***************************************************************************)
\* the options argument of a registration call
Options == [protect : BOOLEAN, filter : Filters]

\* { once: false, ...options }
onOpts(options) ==
  [once |-> FALSE, protect |-> options.protect, filter |-> options.filter]

\* { once: true, ...options }
onceOpts(options) ==
  [once |-> TRUE, protect |-> options.protect, filter |-> options.filter]

\* promise options that leave protect as the caller passed it
promiseOptsAsPassed(options) == onceOpts(options)

\* { once: true, ...listenerOrOptions, protect: true }
promiseOpts(options) ==
  [once |-> TRUE, protect |-> TRUE, filter |-> options.filter]

\* the [listener, opts] pair built by the registration methods; id is the
\* identity of the pair; prep and nested record how it was registered: by
\* unshift, and from inside a running listener
Entry(id, cb, opts, prep, nested) ==
  [id |-> id, cb |-> cb, once |-> opts.once, protect |-> opts.protect,
   filter |-> opts.filter, prep |-> prep, nested |-> nested]

\* a push that skips a callback the list already has
pushUnique(t, ev, e) ==
  IF ev \in DOMAIN t
  THEN (IF \E i \in 1..Len(t[ev]) : t[ev][i].cb = e.cb THEN t
        ELSE Put(t, ev, Append(t[ev], e)))
  ELSE Put(t, ev, <<e>>)

\* a push that always stores a new list
pushNewList(t, ev, e) == Put(t, ev, <<e>>)

\* if (info) info.push(e); else this._evinfo[ev] = [e]
push(t, ev, e) ==
  IF ev \in DOMAIN t THEN Put(t, ev, Append(t[ev], e)) ELSE Put(t, ev, <<e>>)

\* an unshift that inserts at the end
unshiftAtEnd(t, ev, e) == push(t, ev, e)

\* if (info) info.unshift(e); else this._evinfo[ev] = [e]
unshift(t, ev, e) ==
  IF ev \in DOMAIN t THEN Put(t, ev, <<e>> \o t[ev]) ELSE Put(t, ev, <<e>>)

(***************************************************************************)
(* Removal                                                                 *)
(***************************************************************************)
\* a findIndex that returns the last match instead of the first
findLastIndex(l, cb) ==
  IF \E i \in 1..Len(l) : l[i].cb = cb
  THEN (CHOOSE i \in 1..Len(l) :
          l[i].cb = cb /\ \A j \in (i + 1)..Len(l) : l[j].cb # cb) - 1
  ELSE -1

\* Array.prototype.findIndex(([l]) => l === cb): 0-based index of the first
\* match, -1 when there is none
findIndex(l, cb) ==
  IF \E i \in 1..Len(l) : l[i].cb = cb
  THEN (CHOOSE i \in 1..Len(l) :
          l[i].cb = cb /\ \A j \in 1..(i - 1) : l[j].cb # cb) - 1
  ELSE -1

\* Array.prototype.splice(start, 1): a negative start counts from the end
splice(l, start) ==
  LET n == Len(l)
      s == IF start < 0
           THEN (IF n + start < 0 THEN 0 ELSE n + start)
           ELSE (IF start > n THEN n ELSE start)
  IN  IF s >= n THEN l
      ELSE [i \in 1..(n - 1) |-> IF i <= s THEN l[i] ELSE l[i + 1]]

\* a store that keeps the key of an emptied list
StoreAlways(t, ev, l) == Put(t, ev, l)

\* if (cbs.length === 0) delete this._evinfo[ev]
Store(t, ev, l) == IF Len(l) = 0 THEN Delete(t, ev) ELSE Put(t, ev, l)

\* an off(ev, listener) without the test if (cbs) and without the delete
offListenerUnguarded(t, ev, cb) ==
  Put(t, ev, splice(ListOf(t, ev), findIndex(ListOf(t, ev), cb)))

\* off(ev, listener)
offListener(t, ev, cb) ==
  IF ev \in DOMAIN t
  THEN Store(t, ev, splice(t[ev], findIndex(t[ev], cb)))
  ELSE t

\* for (const [cb, { protect }] of cbs) if (!protect) todel.push(cb)
todel(l) ==
  LET unprot == SelectSeq(l, LAMBDA e : ~e.protect)
  IN  [i \in 1..Len(unprot) |-> unprot[i].cb]

\* for (const cb of todel) cbs.splice(cbs.findIndex(([l]) => l === cb), 1)
RECURSIVE spliceAll(_, _)
spliceAll(l, dels) ==
  IF dels = <<>> THEN l
  ELSE spliceAll(splice(l, findIndex(l, Head(dels))), Tail(dels))

\* off(ev)
offEvent(t, ev) ==
  IF ev \in DOMAIN t
  THEN Store(t, ev, spliceAll(t[ev], todel(t[ev])))
  ELSE t

\* Object.keys(this._evinfo).forEach((ev) => this.off(ev)) over the keys ks
RECURSIVE offKeys(_, _)
offKeys(t, ks) ==
  IF ks = {} THEN t
  ELSE LET k == CHOOSE x \in ks : TRUE
       IN  offKeys(offEvent(t, k), ks \ {k})

\* off()
offAll(t) == offKeys(t, DOMAIN t)

(***************************************************************************)
(* Dispatch                                                                *)
(***************************************************************************)
\* a test that ignores the filter
passesAlways(filter, data) == TRUE

\* filter ? filter(data) : true
passes(filter, data) == IF filter # NoFilter THEN filter = data ELSE TRUE

\* a loop that walks the live list this._evinfo[ev] instead of a copy
IterLive(f, t) == ListOf(t, f.ev)

\* the sequence the for-of loop of emit walks: the copy [...this._evinfo[ev]]
\* taken when emit was called (t is the table as it is now)
IterList(f, t) == f.snap

\* 1-based position of the next entry after position i whose callback the
\* loop invokes, 0 when the loop is over
NextIdx(l, i, data) ==
  IF \E j \in (i + 1)..Len(l) : passes(l[j].filter, data)
  THEN CHOOSE j \in (i + 1)..Len(l) :
         passes(l[j].filter, data)
         /\ \A k \in (i + 1)..(j - 1) : ~passes(l[k].filter, data)
  ELSE 0

\* the innermost emit call in progress
Top == stack[Len(stack)]

\* the shim of a promise-form registration; listeners passed by the program
\* are positive
Shim(id) == 0 - id
IsShim(cb) == cb < 0

\* the code now running is the main program or a listener of the program
CanCall == IF stack = <<>> THEN TRUE ELSE ~IsShim(Top.cur.cb)

\* ids of the entries of a sequence, in order
Ids(l) == [i \in 1..Len(l) |-> l[i].id]

NoEntry ==
  Entry(0, 0, onOpts([protect |-> FALSE, filter |-> NoFilter]), FALSE, FALSE)

\* the state of one emit call: its arguments, the copy of the list it walks,
\* the position and the destructured [cb, {once, filter}] of the entry whose
\* callback is running, and what the call has seen: the entries it invoked
\* (in order), the next id and the entries already removed by off when it
\* was called, and the position the loop was at when a listener first
\* called off() or off(ev) (0: none did)
Frame(ev, data, snap, i, cur, invoked, id0, gone0, offAt) ==
  [ev |-> ev, data |-> data, snap |-> snap, i |-> i, cur |-> cur,
   invoked |-> invoked, id0 |-> id0, gone0 |-> gone0, offAt |-> offAt]

NoFrame == Frame("", 0, <<>>, 0, NoEntry, <<>>, 0, {}, 0)

\* the record of a call: its name and arguments, the table before it, and
\* for an emit call that ended the frame it ended with
Call(op, ev, cb, pre, frame) ==
  [op |-> op, ev |-> ev, cb |-> cb, pre |-> pre, frame |-> frame]

NoCall == Call("", "", 0, EmptyTable, NoFrame)

\* the entries a call of off of form op removes in this step
Removed(op) ==
  {[id |-> x, op |-> op, nested |-> stack # <<>>] :
     x \in IdsOf(evinfo) \ IdsOf(evinfo')}

\* how a specification observes the call of a table operation: with its
\* arguments, the table before it and what it removed (Note), with what it
\* removed (Track), or not at all (Quiet)
Note(op, ev, cb) ==
  /\ last' = Call(op, ev, cb, evinfo, NoFrame)
  /\ offGone' = offGone \cup Removed(op)
Track(op) ==
  /\ last' = NoCall
  /\ offGone' = offGone \cup Removed(op)
Quiet ==
  /\ last' = NoCall
  /\ UNCHANGED offGone

\* the caller is the main program, not a listener
Main == stack = <<>>

Init ==
  /\ evinfo = EmptyTable
  /\ nextId = 1
  /\ stack = <<>>
  /\ promises = EmptyTable
  /\ offGone = {}
  /\ last = NoCall

\* a registration call that stores table t2
Register(t2) ==
  /\ CanCall
  /\ nextId <= MaxReg
  /\ evinfo' = t2
  /\ nextId' = nextId + 1
  /\ UNCHANGED stack

\* on(ev, listener, options)
On(ev, listener, options) ==
  /\ Register(push(evinfo, ev, Entry(nextId, listener, onOpts(options),
                                     FALSE, stack # <<>>)))
  /\ UNCHANGED promises

\* prependOn(ev, listener, options)
PrependOn(ev, listener, options) ==
  /\ Register(unshift(evinfo, ev, Entry(nextId, listener, onOpts(options),
                                        TRUE, stack # <<>>)))
  /\ UNCHANGED promises

\* once(ev, listener, options)
Once(ev, listener, options) ==
  /\ Register(push(evinfo, ev, Entry(nextId, listener, onceOpts(options),
                                     FALSE, stack # <<>>)))
  /\ UNCHANGED promises

\* prependOnce(ev, listener, options)
PrependOnce(ev, listener, options) ==
  /\ Register(unshift(evinfo, ev, Entry(nextId, listener, onceOpts(options),
                                        TRUE, stack # <<>>)))
  /\ UNCHANGED promises

\* the promise new Promise((resolve) => ...) returns for a registration under
\* ev with the given filter: value 0 while pending, else the payload it was
\* resolved with
Pending(ev, filter) == [ev |-> ev, filter |-> filter, value |-> 0]

\* once(ev, options): the promise form
OncePromise(ev, options) ==
  /\ Register(push(evinfo, ev, Entry(nextId, Shim(nextId),
                                     promiseOpts(options), FALSE, stack # <<>>)))
  /\ promises' = Put(promises, nextId, Pending(ev, options.filter))

\* prependOnce(ev, options): the promise form
PrependOncePromise(ev, options) ==
  /\ Register(unshift(evinfo, ev, Entry(nextId, Shim(nextId),
                                        promiseOpts(options), TRUE, stack # <<>>)))
  /\ promises' = Put(promises, nextId, Pending(ev, options.filter))

\* a call of off that stores table t2; untargeted tells off() and off(ev)
\* from off(ev, listener)
Remove(t2, untargeted) ==
  /\ CanCall
  /\ evinfo' = t2
  /\ IF untargeted
     THEN stack' = [k \in 1..Len(stack) |->
                      [stack[k] EXCEPT !.offAt = IF @ = 0 THEN stack[k].i ELSE @]]
     ELSE UNCHANGED stack
  /\ UNCHANGED <<nextId, promises>>

\* off(ev, listener)
Off(ev, listener) == Remove(offListener(evinfo, ev, listener), FALSE)

\* off(ev)
OffEvent(ev) == Remove(offEvent(evinfo, ev), TRUE)

\* off()
OffAll == Remove(offAll(evinfo), TRUE)

\* the loop of emit from position i of frame f on, over table t: either the
\* callback of the next accepted entry starts running, or the call returns
Loop(f, i, t, rest) ==
  LET l == IterList(f, t)
      j == NextIdx(l, i, f.data)
  IN  IF j = 0
      THEN /\ stack' = rest
           /\ last' = Call("emitReturn", f.ev, 0, EmptyTable, f)
      ELSE /\ stack' = Append(rest, [f EXCEPT !.i = j, !.cur = l[j],
                                              !.invoked = Append(@, l[j].id)])
           /\ last' = NoCall

\* an emit that, called from inside a pass of the same event, walks the
\* copy that pass took
EmitSharedCopy(ev, data) ==
  /\ CanCall
  /\ Len(stack) < MaxDepth
  /\ Loop(Frame(ev, data,
                IF stack # <<>> /\ Top.ev = ev THEN Top.snap ELSE ListOf(evinfo, ev),
                0, NoEntry, <<>>, nextId, {r.id : r \in offGone}, 0),
          0, evinfo, stack)
  /\ UNCHANGED <<evinfo, nextId, promises, offGone>>

\* emit(ev, ...data) is called: without a list for ev it returns at once,
\* otherwise it copies the list and enters the loop
Emit(ev, data) ==
  /\ CanCall
  /\ Len(stack) < MaxDepth
  /\ Loop(Frame(ev, data, ListOf(evinfo, ev), 0, NoEntry, <<>>, nextId,
                {r.id : r \in offGone}, 0),
          0, evinfo, stack)
  /\ UNCHANGED <<evinfo, nextId, promises, offGone>>

\* if (once) this.off(ev, cb), after the callback of entry cur has returned
onceOff(t, ev, cur) == IF cur.once THEN offListener(t, ev, cur.cb) ELSE t

\* the running listener returns: the once entry is removed and the loop of
\* the innermost emit call goes on
Return ==
  /\ stack # <<>>
  /\ ~IsShim(Top.cur.cb)
  /\ evinfo' = onceOff(evinfo, Top.ev, Top.cur)
  /\ Loop(Top, Top.i, evinfo', SubSeq(stack, 1, Len(stack) - 1))
  /\ UNCHANGED <<nextId, promises, offGone>>

\* a shim that resolves with a payload kept from elsewhere, not with the
\* arguments it is called with
ShimRunStale ==
  /\ stack # <<>>
  /\ IsShim(Top.cur.cb)
  /\ promises' = [promises EXCEPT ![Top.cur.id].value = IF @ = 0 THEN 1 ELSE @]
  /\ evinfo' = onceOff(evinfo, Top.ev, Top.cur)
  /\ Loop(Top, Top.i, evinfo', SubSeq(stack, 1, Len(stack) - 1))
  /\ UNCHANGED <<nextId, offGone>>

\* the shim of a promise-form entry runs: resolve(data), which settles the
\* promise if it is pending, and returns
ShimRun ==
  /\ stack # <<>>
  /\ IsShim(Top.cur.cb)
  /\ promises' = [promises EXCEPT ![Top.cur.id].value =
                    IF @ = 0 THEN Top.data ELSE @]
  /\ evinfo' = onceOff(evinfo, Top.ev, Top.cur)
  /\ Loop(Top, Top.i, evinfo', SubSeq(stack, 1, Len(stack) - 1))
  /\ UNCHANGED <<nextId, offGone>>

\* a loop that catches what the running listener throws and goes on
ThrowCaught ==
  /\ stack # <<>>
  /\ ~IsShim(Top.cur.cb)
  /\ LET j == NextIdx(Top.snap, Top.i, Top.data)
         rest == SubSeq(stack, 1, Len(stack) - 1)
     IN  stack' = IF j = 0 THEN rest
                  ELSE Append(rest, [Top EXCEPT !.i = j, !.cur = Top.snap[j],
                                                !.invoked = Append(@, Top.snap[j].id)])
  /\ last' = Call("emitThrow", Top.ev, Top.cur.cb, EmptyTable, Top)
  /\ UNCHANGED <<evinfo, nextId, promises, offGone>>

\* the running listener throws: the innermost emit call is left at once
Throw ==
  /\ stack # <<>>
  /\ ~IsShim(Top.cur.cb)
  /\ stack' = SubSeq(stack, 1, Len(stack) - 1)
  /\ last' = Call("emitThrow", Top.ev, Top.cur.cb, EmptyTable, Top)
  /\ UNCHANGED <<evinfo, nextId, promises, offGone>>

(***************************************************************************)
(* Spec: the table operations, called by the main program and observed,    *)
(* and emit with listeners that return without calling the emitter.        *)
(***************************************************************************)
\* the options the main program passes
TableOptions == [protect : BOOLEAN, filter : {NoFilter}]

Next ==
  \/ \E ev \in Events, l \in Listeners, o \in TableOptions :
       Main /\ On(ev, l, o) /\ Note("on", ev, l)
  \/ \E ev \in Events, l \in Listeners, o \in TableOptions :
       Main /\ PrependOn(ev, l, o) /\ Note("prependOn", ev, l)
  \/ \E ev \in Events, l \in Listeners :
       Main /\ Off(ev, l) /\ Note("off", ev, l)
  \/ \E ev \in Events : Main /\ OffEvent(ev) /\ Note("offEvent", ev, 0)
  \/ Main /\ OffAll /\ Note("offAll", "", 0)
  \/ \E ev \in Events, d \in Payloads : Main /\ Emit(ev, d)
  \/ Return

Spec == Init /\ [][Next]_vars

(***************************************************************************)
(* SpecOrder: registrations of the four kinds on one event, and emit with  *)
(* listeners that return without calling the emitter.                      *)
(***************************************************************************)
OrderOptions == [protect : {FALSE}, filter : Filters]

NextOrder ==
  \/ \E l \in Listeners, o \in OrderOptions : Main /\ On("foo", l, o) /\ Quiet
  \/ \E l \in Listeners, o \in OrderOptions :
       Main /\ PrependOn("foo", l, o) /\ Quiet
  \/ \E l \in Listeners, o \in OrderOptions : Main /\ Once("foo", l, o) /\ Quiet
  \/ \E l \in Listeners, o \in OrderOptions :
       Main /\ PrependOnce("foo", l, o) /\ Quiet
  \/ \E l \in Listeners : Main /\ Off("foo", l) /\ Quiet
  \/ \E d \in Payloads : Main /\ Emit("foo", d)
  \/ Return

SpecOrder == Init /\ [][NextOrder]_vars

(***************************************************************************)
(* SpecEmit: one event whose listeners register and remove listeners while *)
(* the loop of emit is running, return or throw.                           *)
(***************************************************************************)
EmitOptions == [protect : {FALSE}, filter : {NoFilter, 1}]

NextEmit ==
  \/ \E l \in Listeners, o \in EmitOptions : On("foo", l, o) /\ Quiet
  \/ \E l \in Listeners, o \in EmitOptions : PrependOn("foo", l, o) /\ Quiet
  \/ \E l \in Listeners, o \in EmitOptions : Once("foo", l, o) /\ Quiet
  \/ \E l \in Listeners, o \in EmitOptions : PrependOnce("foo", l, o) /\ Quiet
  \/ \E l \in Listeners : Off("foo", l) /\ Quiet
  \/ \E d \in Payloads : Main /\ Emit("foo", d)
  \/ Return
  \/ Throw

SpecEmit == Init /\ [][NextEmit]_vars

(***************************************************************************)
(* SpecProtect: protected and unprotected listeners on two events that     *)
(* call the three forms of off while the loop of emit is running.          *)
(***************************************************************************)
ProtectOptions == [protect : BOOLEAN, filter : {NoFilter}]

NextProtect ==
  \/ \E ev \in Events, l \in Listeners, o \in ProtectOptions :
       Main /\ On(ev, l, o) /\ Quiet
  \/ \E ev \in Events, l \in Listeners, o \in ProtectOptions :
       Main /\ Once(ev, l, o) /\ Quiet
  \/ \E ev \in Events, l \in Listeners : Off(ev, l) /\ Track("off")
  \/ \E ev \in Events : OffEvent(ev) /\ Track("offEvent")
  \/ OffAll /\ Track("offAll")
  \/ \E ev \in Events : Main /\ Emit(ev, 1)
  \/ Return

SpecProtect == Init /\ [][NextProtect]_vars

(***************************************************************************)
(* SpecOnce: once and non-once listeners on one event that call emit and   *)
(* off(event, listener) while the loop of emit is running.                 *)
(***************************************************************************)
OnceOptions == [protect : BOOLEAN, filter : {NoFilter}]

NextOnce ==
  \/ \E l \in Listeners, o \in OnceOptions : Main /\ On("foo", l, o) /\ Quiet
  \/ \E l \in Listeners, o \in OnceOptions : Main /\ Once("foo", l, o) /\ Quiet
  \/ \E l \in Listeners : Off("foo", l) /\ Quiet
  \/ Emit("foo", 1)
  \/ Return

SpecOnce == Init /\ [][NextOnce]_vars

(***************************************************************************)
(* SpecPromise: the promise forms of once and prependOnce next to plain    *)
(* listeners, the three forms of off called by the main program and by     *)
(* listeners, and emit.                                                    *)
(***************************************************************************)
PromiseOptions == [protect : BOOLEAN, filter : {NoFilter, 1}]
PlainOptions == [protect : {FALSE}, filter : {NoFilter}]

NextPromise ==
  \/ \E o \in PromiseOptions :
       Main /\ OncePromise("foo", o) /\ Note("oncePromise", "foo", 0)
  \/ \E o \in PromiseOptions :
       Main /\ PrependOncePromise("foo", o) /\ Note("prependOncePromise", "foo", 0)
  \/ \E ev \in Events, l \in Listeners, o \in PlainOptions :
       Main /\ On(ev, l, o) /\ Note("on", ev, l)
  \/ \E l \in Listeners : Off("foo", l) /\ Note("off", "foo", l)
  \/ OffEvent("foo") /\ Note("offEvent", "foo", 0)
  \/ OffAll /\ Note("offAll", "", 0)
  \/ \E ev \in Events, d \in Payloads : Main /\ Emit(ev, d)
  \/ Return
  \/ ShimRun

SpecPromise == Init /\ [][NextPromise]_vars

(***************************************************************************)
(* SpecRegister: the four registration methods with a listener, on two     *)
(* events and with the protect and filter options, called by the main      *)
(* program and by listeners while the loop of emit is running.             *)
(***************************************************************************)
RegisterOptions ==
  {[protect |-> FALSE, filter |-> NoFilter], [protect |-> TRUE, filter |-> 1]}
RegisterListeners == {1}

NextRegister ==
  \/ \E ev \in Events, l \in RegisterListeners, o \in RegisterOptions :
       On(ev, l, o) /\ Note("on", ev, l)
  \/ \E ev \in Events, l \in RegisterListeners, o \in RegisterOptions :
       PrependOn(ev, l, o) /\ Note("prependOn", ev, l)
  \/ \E ev \in Events, l \in RegisterListeners, o \in RegisterOptions :
       Once(ev, l, o) /\ Note("once", ev, l)
  \/ \E ev \in Events, l \in RegisterListeners, o \in RegisterOptions :
       PrependOnce(ev, l, o) /\ Note("prependOnce", ev, l)
  \/ \E ev \in Events : Main /\ Emit(ev, 1)
  \/ Return

SpecRegister == Init /\ [][NextRegister]_vars

(***************************************************************************)
(* SpecThrow: once and non-once listeners on one event that return or      *)
(* throw without calling the emitter.                                      *)
(***************************************************************************)
NextThrow ==
  \/ \E l \in Listeners, o \in PlainOptions : Main /\ On("foo", l, o) /\ Quiet
  \/ \E l \in Listeners, o \in PlainOptions : Main /\ Once("foo", l, o) /\ Quiet
  \/ Main /\ Emit("foo", 1)
  \/ Return
  \/ Throw

SpecThrow == Init /\ [][NextThrow]_vars

(***************************************************************************)
(* SpecNested: listeners on one event that register listeners, remove      *)
(* listeners and call emit for the same event while the loop of emit is    *)
(* running.                                                                *)
(***************************************************************************)
NextNested ==
  \/ \E l \in Listeners, o \in PlainOptions : On("foo", l, o) /\ Quiet
  \/ \E l \in Listeners : Off("foo", l) /\ Track("off")
  \/ Emit("foo", 1)
  \/ Return

SpecNested == Init /\ [][NextNested]_vars

(***************************************************************************)
(* SpecRoundTrip: the four registration methods with a listener and        *)
(* off(event, listener), called by the main program and observed.          *)
(***************************************************************************)
NextRoundTrip ==
  \/ \E ev \in Events, l \in Listeners, o \in RegisterOptions :
       Main /\ On(ev, l, o) /\ Note("on", ev, l)
  \/ \E ev \in Events, l \in Listeners, o \in RegisterOptions :
       Main /\ PrependOn(ev, l, o) /\ Note("prependOn", ev, l)
  \/ \E ev \in Events, l \in Listeners, o \in RegisterOptions :
       Main /\ Once(ev, l, o) /\ Note("once", ev, l)
  \/ \E ev \in Events, l \in Listeners, o \in RegisterOptions :
       Main /\ PrependOnce(ev, l, o) /\ Note("prependOnce", ev, l)
  \/ \E ev \in Events, l \in Listeners : Main /\ Off(ev, l) /\ Note("off", ev, l)

SpecRoundTrip == Init /\ [][NextRoundTrip]_vars

(***************************************************************************)
(* Notions the properties below are stated with                            *)
(***************************************************************************)
\* the elements of a sequence
Range(q) == {q[i] : i \in 1..Len(q)}

\* the entries of l whose filter accepts payload d, or that have no filter
Accepted(l, d) == SelectSeq(l, LAMBDA e : passes(e.filter, d))

\* the protected / the unprotected entries of l, in list order
Protected(l) == SelectSeq(l, LAMBDA e : e.protect)
Unprotected(l) == SelectSeq(l, LAMBDA e : ~e.protect)

\* list l without its element at position i
Without(l, i) == SubSeq(l, 1, i - 1) \o SubSeq(l, i + 1, Len(l))

\* table t with the list of ev replaced by l, the key being absent when l
\* is empty
WithList(t, ev, l) ==
  [k \in (IF l = <<>> THEN DOMAIN t \ {ev} ELSE DOMAIN t \cup {ev}) |->
     IF k = ev THEN l ELSE t[k]]

\* the emit calls in progress and the one that has just ended
Passes ==
  Range(stack) \cup
    (IF last.op \in {"emitReturn", "emitThrow"} THEN {last.frame} ELSE {})

\* listener cb has an entry under ev in table t
Registered(t, ev, cb) == \E e \in Range(ListOf(t, ev)) : e.cb = cb

(***************************************************************************)
(* C1: an emit call in which no callback throws has, when it returns,      *)
(* invoked exactly the entries that were in the event's list when it was   *)
(* called and whose filter accepts the payload (or that have no filter),   *)
(* each once and in list order, whatever registrations and removals the    *)
(* callbacks made during the pass.                                         *)
(***************************************************************************)
C1_EmitInvokesListAtCall ==
  last.op = "emitReturn" =>
    last.frame.invoked = Ids(Accepted(last.frame.snap, last.frame.data))

\* an emit call has returned after invoking two entries, while its callbacks
\* registered an entry that is now in the list and removed, by off, a
\* non-once entry that was in the list at the call
C1_Witness ==
  /\ last.op = "emitReturn"
  /\ Len(last.frame.invoked) >= 2
  /\ \E e \in Range(ListOf(evinfo, last.ev)) : e.id >= last.frame.id0
  /\ \E e \in Range(last.frame.snap) :
       ~e.once /\ e \notin Range(ListOf(evinfo, last.ev))

(***************************************************************************)
(* C2: when the registrations made so far all went to one event and none   *)
(* of its entries has been removed, an emit of that event invokes the      *)
(* prepended listeners (prependOn, prependOnce) first, the last prepended  *)
(* first, and then the appended ones (on, once) in their order of          *)
(* registration; once and non-once listeners share this order.             *)
(***************************************************************************)
\* entry a is to be invoked before entry b
Precedes(a, b) ==
  IF a.prep /\ b.prep THEN a.id > b.id
  ELSE IF a.prep THEN TRUE
  ELSE IF b.prep THEN FALSE
  ELSE a.id < b.id

\* the entry of list l with identity id
EntryOf(l, id) == CHOOSE e \in Range(l) : e.id = id

C2_EmitOrder ==
  (last.op = "emitReturn"
     /\ IdsOfList(last.frame.snap) = 1..Len(last.frame.snap))
    => /\ Range(last.frame.invoked) =
            {e.id : e \in Range(Accepted(last.frame.snap, last.frame.data))}
       /\ \A p, q \in 1..Len(last.frame.invoked) :
            p < q => Precedes(EntryOf(last.frame.snap, last.frame.invoked[p]),
                              EntryOf(last.frame.snap, last.frame.invoked[q]))

\* an emit has returned that invoked three listeners registered without a
\* removal: two prepended ones and an appended one, once and non-once
C2_Witness ==
  /\ last.op = "emitReturn"
  /\ IdsOfList(last.frame.snap) = 1..Len(last.frame.snap)
  /\ Len(last.frame.invoked) = 3
  /\ Cardinality({e \in Range(last.frame.snap) : e.prep}) = 2
  /\ \E a, b \in Range(last.frame.snap) : a.once /\ ~b.once

OffByListener == {r \in offGone : r.nested /\ r.op \in {"offEvent", "offAll"}}

C4_OffDuringEmit ==
  /\ (last.op = "emitReturn" /\ last.frame.offAt > 0) =>
       last.frame.invoked = Ids(Accepted(last.frame.snap, last.frame.data))
  /\ \A f \in Passes : \A r \in OffByListener :
       r.id \in f.gone0 => r.id \notin Range(f.invoked)

\* an emit has returned in which the first listener called off() or
\* off(event), which removed the second entry, and the second was invoked
C4_Witness ==
  /\ last.op = "emitReturn"
  /\ last.frame.offAt = 1
  /\ Len(last.frame.invoked) = 2
  /\ \E r \in OffByListener :
       r.id = last.frame.invoked[2] /\ r.id \notin last.frame.gone0

(***************************************************************************)
(* C5: off(event, callback) with a callback that no entry under event has  *)
(* leaves the whole listener table unchanged.                              *)
(***************************************************************************)
C5_OffUnknownListenerIsNoOp ==
  (last.op = "off" /\ ~Registered(last.pre, last.ev, last.cb))
    => evinfo = last.pre

(***************************************************************************)
(* C6: off(event, callback), when some entry under event has the callback, *)
(* removes exactly the first entry in list order with that callback,       *)
(* protected or not; the other entries keep their order (the key goes when *)
(* the list becomes empty, the other keys are untouched), and no emit      *)
(* called afterwards invokes the removed entry.                            *)
(***************************************************************************)
C6_OffListenerRemovesFirstMatch ==
  /\ (last.op = "off" /\ Registered(last.pre, last.ev, last.cb))
       => \E i \in 1..Len(last.pre[last.ev]) :
            /\ last.pre[last.ev][i].cb = last.cb
            /\ \A j \in 1..(i - 1) : last.pre[last.ev][j].cb # last.cb
            /\ evinfo = WithList(last.pre, last.ev,
                                 Without(last.pre[last.ev], i))
  /\ \A f \in Passes : \A r \in offGone :
       (r.op = "off" /\ r.id \in f.gone0) => r.id \notin Range(f.invoked)

\* off(event, callback) has removed a protected entry, the first of two
\* entries with that callback, and left the second
C6_Witness ==
  /\ last.op = "off"
  /\ Len(ListOf(last.pre, last.ev)) >= 2
  /\ last.pre[last.ev][1].cb = last.cb
  /\ last.pre[last.ev][1].protect
  /\ last.pre[last.ev][2].cb = last.cb
  /\ ListOf(evinfo, last.ev) = Tail(last.pre[last.ev])

(***************************************************************************)
(* C7: an entry registered with protect: true is not removed by off(event) *)
(* or off(): after the call the protected entries of every event the call  *)
(* covers are still in its list, with their options and in their order.    *)
(***************************************************************************)
C7_ProtectedSurvivesUntargetedOff ==
  /\ last.op = "offEvent" =>
       Protected(ListOf(evinfo, last.ev)) = Protected(ListOf(last.pre, last.ev))
  /\ last.op = "offAll" =>
       \A ev \in Events :
         Protected(ListOf(evinfo, ev)) = Protected(ListOf(last.pre, ev))

(***************************************************************************)
(* C8: a protected non-once listener stays registered until off(event,     *)
(* listener) is called with its event and listener: no other call removes  *)
(* its entry.                                                              *)
(***************************************************************************)
C8_ProtectedRemovedOnlyByExactOff ==
  ~(last.op \in {"", "emitReturn", "emitThrow"}) =>
    \A ev \in Events : \A e \in Range(ListOf(last.pre, ev)) :
      (e.protect /\ ~e.once
         /\ ~(last.op = "off" /\ last.ev = ev /\ last.cb = e.cb))
        => e \in Range(ListOf(evinfo, ev))

(***************************************************************************)
(* C9: after off(event) no unprotected entry remains under event.          *)
(***************************************************************************)
C9_OffEventRemovesAllUnprotected ==
  last.op = "offEvent" => Unprotected(ListOf(evinfo, last.ev)) = <<>>

(***************************************************************************)
(* C10: after off() no unprotected entry remains under any key the table   *)
(* had when off() was called, and the table is the one that off(key),      *)
(* applied to each of those keys, gives.                                   *)
(***************************************************************************)
C10_OffAllRemovesAllUnprotected ==
  last.op = "offAll" =>
    /\ \A ev \in DOMAIN last.pre : Unprotected(ListOf(evinfo, ev)) = <<>>
    /\ \A ev \in Events :
         ListOf(evinfo, ev) = ListOf(offEvent(last.pre, ev), ev)

(***************************************************************************)
(* C11: when an emit call returns, every once entry (once, prependOnce)    *)
(* that it invoked is absent from the table.  (That no later emit invokes  *)
(* such an entry is what C12 states.)                                      *)
(***************************************************************************)
\* the once entries that the pass with frame f has invoked
FiredOnce(f) == {e \in Range(f.snap) : e.once /\ e.id \in Range(f.invoked)}

C11_FiredOnceIsAbsent ==
  last.op = "emitReturn" =>
    \A e \in FiredOnce(last.frame) : e.id \notin IdsOf(evinfo)

(***************************************************************************)
(* C12: the callback of an entry registered with once or prependOnce is    *)
(* invoked at most one time through that entry, emit calls issued from     *)
(* inside listeners included: no once entry is invoked by two emit calls   *)
(* of which one runs inside the other.                                     *)
(***************************************************************************)
\* the once entries the pass with frame f has invoked
FiredOnceIds(f) == {e.id : e \in FiredOnce(f)}

C12_OnceInvokedAtMostOnce ==
  /\ \A p, q \in 1..Len(stack) :
       p < q => FiredOnceIds(stack[p]) \cap FiredOnceIds(stack[q]) = {}
  /\ last.op \in {"emitReturn", "emitThrow"} =>
       \A p \in 1..Len(stack) :
         FiredOnceIds(stack[p]) \cap FiredOnceIds(last.frame) = {}

(***************************************************************************)
(* C13: the removal emit performs after a once entry has fired removes     *)
(* that entry and nothing else: the step in which a callback returns takes *)
(* no other entry out of the table.                                        *)
(***************************************************************************)
C13_OnceRemovalIsExact ==
  [][(Return \/ ShimRun) => IdsOf(evinfo) \ IdsOf(evinfo') \subseteq {Top.cur.id}]_vars

(***************************************************************************)
(* C14: during emit(event, payload) an entry of the copied list that has a *)
(* filter is invoked if and only if its filter returns true for payload,   *)
(* and an entry without a filter is always invoked (by a call that         *)
(* returns); a callback whose filter rejects the payload is not invoked at *)
(* all.                                                                    *)
(***************************************************************************)
\* entry e was registered with a filter / its filter returns true for d
HasFilter(e) == e.filter # NoFilter
FilterAccepts(e, d) == e.filter = d

C14_InvokedIffFilterAccepts ==
  /\ \A f \in Passes : \A e \in Range(f.snap) :
       (e.id \in Range(f.invoked) /\ HasFilter(e)) => FilterAccepts(e, f.data)
  /\ last.op = "emitReturn" =>
       \A e \in Range(last.frame.snap) :
         (HasFilter(e) => FilterAccepts(e, last.frame.data))
           => e.id \in Range(last.frame.invoked)

\* an emit has returned whose list held an entry whose filter accepted the
\* payload, one whose filter rejected it and one without a filter: the
\* first and the last were invoked, the second was not
C14_Witness ==
  /\ last.op = "emitReturn"
  /\ \E a, b, c \in Range(last.frame.snap) :
       /\ HasFilter(a) /\ FilterAccepts(a, last.frame.data)
       /\ HasFilter(b) /\ ~FilterAccepts(b, last.frame.data)
       /\ ~HasFilter(c)
       /\ a.id \in Range(last.frame.invoked)
       /\ b.id \notin Range(last.frame.invoked)
       /\ c.id \in Range(last.frame.invoked)

(***************************************************************************)
(* C15: an emit whose payload the filter of a once entry rejects does not  *)
(* consume the entry: when the emit returns (its callbacks having left the *)
(* table alone) the once entries whose filter rejected the payload are     *)
(* still in the list, in the order they had.  (That such an entry fires on *)
(* the next emit whose payload its filter accepts is what C14 states.)     *)
(***************************************************************************)
\* the once entries of l whose filter rejects payload d, in list order
RejectedOnce(l, d) ==
  SelectSeq(l, LAMBDA e : e.once /\ HasFilter(e) /\ ~FilterAccepts(e, d))

C15_RejectedOnceIsKept ==
  last.op = "emitReturn" =>
    RejectedOnce(ListOf(evinfo, last.ev), last.frame.data)
      = RejectedOnce(last.frame.snap, last.frame.data)

(***************************************************************************)
(* C16: every entry created by the promise form once(event, options?) or   *)
(* prependOnce(event, options?) has once = true and protect = true,        *)
(* whatever options the caller passes; once appends it to the list of the  *)
(* event and prependOnce puts it in front.                                 *)
(***************************************************************************)
\* e is an entry of a promise-form registration, with once and protect set
PromiseEntry(e) == IsShim(e.cb) /\ e.once /\ e.protect

C16_PromiseEntryIsOnceProtected ==
  /\ \A ev \in Events : \A e \in Range(ListOf(evinfo, ev)) :
       IsShim(e.cb) => PromiseEntry(e)
  /\ last.op = "oncePromise" =>
       LET l == ListOf(evinfo, last.ev)
       IN  /\ l # <<>>
           /\ l = Append(ListOf(last.pre, last.ev), l[Len(l)])
           /\ PromiseEntry(l[Len(l)])
           /\ l[Len(l)].id \notin IdsOf(last.pre)
  /\ last.op = "prependOncePromise" =>
       LET l == ListOf(evinfo, last.ev)
       IN  /\ l # <<>>
           /\ l = <<l[1]>> \o ListOf(last.pre, last.ev)
           /\ PromiseEntry(l[1])
           /\ l[1].id \notin IdsOf(last.pre)

\* the promise form of prependOnce has put its entry in front of a list
\* that held a promise entry appended by once and another entry
C16_Witness ==
  /\ last.op = "prependOncePromise"
  /\ Len(ListOf(last.pre, last.ev)) = 2
  /\ \E e \in Range(ListOf(last.pre, last.ev)) : PromiseEntry(e) /\ ~e.prep
  /\ PromiseEntry(evinfo[last.ev][1])

(***************************************************************************)
(* C17: an entry created by the promise form of once/prependOnce whose     *)
(* promise is pending leaves the table only in the step in which its own   *)
(* shim has run: no off(), off(event), off(event, otherCallback),          *)
(* registration, or return of another listener removes it.                 *)
(***************************************************************************)
C17_PromiseEntryRemovedOnlyByFiring ==
  [][\A ev \in Events : \A e \in Range(ListOf(evinfo, ev)) :
       (IsShim(e.cb) /\ promises[e.id].value = 0 /\ e.id \notin IdsOf(evinfo'))
         => (ShimRun /\ Top.cur.id = e.id)]_vars

(***************************************************************************)
(* C18: the promise of once(event, {filter?}) / prependOnce(event,         *)
(* {filter?}) is resolved with the payload of the first emit(event,        *)
(* payload) called after the registration whose payload the filter         *)
(* accepts, whatever on/off calls were made in between: when such an emit  *)
(* returns the promise is resolved, and with that payload if its entry was *)
(* still waiting.                                                          *)
(***************************************************************************)
\* the filter the promise was asked with accepts payload d
PromiseAccepts(id, d) ==
  promises[id].filter = NoFilter \/ promises[id].filter = d

C18_PromiseResolvedByAcceptedEmit ==
  last.op = "emitReturn" =>
    \A id \in DOMAIN promises :
      (id < last.frame.id0 /\ promises[id].ev = last.ev
         /\ PromiseAccepts(id, last.frame.data))
        => /\ promises[id].value # 0
           /\ id \in IdsOfList(last.frame.snap)
                => promises[id].value = last.frame.data

(***************************************************************************)
(* C19: in every reachable state, the states in the middle of a dispatch   *)
(* pass included, no key of the listener table is mapped to an empty list: *)
(* a key is present if and only if at least one entry is registered under  *)
(* it.                                                                     *)
(***************************************************************************)
C19_NoEmptyList ==
  /\ DOMAIN evinfo \subseteq Events
  /\ \A ev \in DOMAIN evinfo : Len(evinfo[ev]) > 0

\* in the middle of a pass, a listener has removed the last entry of the
\* event being dispatched: its key is gone while the other key is present
C19_Witness ==
  /\ stack # <<>>
  /\ Top.ev \notin DOMAIN evinfo
  /\ DOMAIN evinfo # {}
  /\ offGone # {}

(***************************************************************************)
(* C20: registering on, removing from (off(event), off(event, listener))   *)
(* or emitting event key A, with callbacks that do not operate on the      *)
(* emitter, leaves the listener list of every other key B unchanged and    *)
(* invokes no entry registered under B.                                    *)
(***************************************************************************)
\* a step of an operation on key A: a registration, a removal, the call of
\* emit, or the return of a callback that emit(A) invoked
OnKey(A) ==
  \/ \E l \in Listeners, o \in Options :
       On(A, l, o) \/ PrependOn(A, l, o) \/ Once(A, l, o) \/ PrependOnce(A, l, o)
  \/ \E l \in Listeners : Off(A, l)
  \/ OffEvent(A)
  \/ \E d \in Payloads : Emit(A, d)
  \/ (stack # <<>> /\ Top.ev = A /\ (Return \/ ShimRun))

C20_OtherKeysUntouched ==
  [][\A A \in Events : OnKey(A) =>
       \A B \in Events \ {A} :
         /\ ListOf(evinfo', B) = ListOf(evinfo, B)
         /\ stack' # <<>> =>
              stack'[Len(stack')].cur.id \notin IdsOfList(ListOf(evinfo, B))]_vars

\* off(event) has removed the last entry of its event, and with it the key,
\* while the other key has its entries
C20_Witness ==
  /\ last.op = "offEvent"
  /\ last.ev \in DOMAIN last.pre
  /\ last.ev \notin DOMAIN evinfo
  /\ DOMAIN evinfo # {}

(***************************************************************************)
(* C21: operations on a key without entries are no-ops that do not fail:   *)
(* emit(event, payload), off(event) and off(event, listener) for a key     *)
(* that is not in the table, and off() on an empty table, invoke no        *)
(* callback, return normally and leave the table unchanged.                *)
(***************************************************************************)
\* the step starts no callback
NoCallbackStarts ==
  /\ Len(stack') = Len(stack)
  /\ \A k \in 1..Len(stack) : stack'[k].invoked = stack[k].invoked

C21_AbsentKeyIsNoOp ==
  [][/\ \A ev \in Events \ DOMAIN evinfo :
          /\ (\E d \in Payloads : Emit(ev, d)) =>
               /\ evinfo' = evinfo
               /\ NoCallbackStarts
               /\ last'.op = "emitReturn"
               /\ last'.frame.invoked = <<>>
          /\ (OffEvent(ev) \/ \E l \in Listeners : Off(ev, l)) =>
               evinfo' = evinfo /\ NoCallbackStarts
     /\ (evinfo = EmptyTable /\ OffAll) =>
          evinfo' = evinfo /\ NoCallbackStarts]_vars

\* off(event, listener) has returned for a key that was not in the table,
\* while the other key had entries
C21_Witness ==
  /\ last.op = "off"
  /\ last.ev \notin DOMAIN last.pre
  /\ last.pre # EmptyTable
  /\ evinfo = last.pre

(***************************************************************************)
(* C22: when a callback throws during emit(event, payload), called by the  *)
(* main program, the entries of the copied list before it that accept the  *)
(* payload have been invoked, in order, no entry after it is invoked in    *)
(* that pass, and control is back at the caller of emit with the error.    *)
(***************************************************************************)
C22_ThrowEndsPass ==
  last.op = "emitThrow" =>
    /\ last.frame.i \in 1..Len(last.frame.snap)
    /\ last.frame.snap[last.frame.i].cb = last.cb
    /\ last.frame.invoked =
         Ids(Accepted(SubSeq(last.frame.snap, 1, last.frame.i), last.frame.data))
    /\ Main

\* the second of three listeners that accept the payload has thrown: the
\* first two were invoked, the third was not
C22_Witness ==
  /\ last.op = "emitThrow"
  /\ Len(last.frame.invoked) = 2
  /\ Len(Accepted(last.frame.snap, last.frame.data)) = 3

(***************************************************************************)
(* C23: a callback invoked by emit(event, payload) receives the payload of *)
(* that emit call, and its filter was evaluated on that payload: the shim  *)
(* of a promise entry, which hands on what it receives, resolves its       *)
(* promise with the payload of the emit call that invoked it, never with   *)
(* that of another emit or event.                                          *)
(***************************************************************************)
C23_CallbackReceivesPayload ==
  last.op = "emitReturn" =>
    \A id \in Range(last.frame.invoked) \cap DOMAIN promises :
      /\ promises[id].ev = last.ev
      /\ promises[id].value = last.frame.data
      /\ PromiseAccepts(id, last.frame.data)

\* emit(event, 2) has returned: it invoked the shim of a promise, which is
\* resolved with 2, while a promise whose filter accepts only 1 is pending
C23_Witness ==
  /\ last.op = "emitReturn"
  /\ last.frame.data = 2
  /\ \E id \in Range(last.frame.invoked) \cap DOMAIN promises :
       promises[id].value = 2
  /\ \E id \in DOMAIN promises :
       promises[id].filter = 1 /\ promises[id].value = 0

(***************************************************************************)
(* C24: a listener registered with on or prependOn persists: emit does not *)
(* remove it, so when an emit whose callbacks do not call the emitter      *)
(* returns, the non-once entries of the list it copied are still in the    *)
(* list, in their order; and if no once entry fired the list is unchanged. *)
(***************************************************************************)
\* the entries of l registered with on or prependOn, in list order
Persistent(l) == SelectSeq(l, LAMBDA e : ~e.once)

C24_EmitKeepsPersistent ==
  last.op = "emitReturn" =>
    /\ Persistent(ListOf(evinfo, last.ev)) = Persistent(last.frame.snap)
    /\ FiredOnce(last.frame) = {} => ListOf(evinfo, last.ev) = last.frame.snap

(***************************************************************************)
(* C25: changes to listeners made during an emit loop are queued until the *)
(* loop completes: a registration or removal issued by a callback while    *)
(* emit is dispatching does not change the listener table in that step.    *)
(***************************************************************************)
\* a step in which the running code registers or removes a listener
TableCall ==
  \/ \E ev \in Events, l \in Listeners, o \in Options :
       On(ev, l, o) \/ PrependOn(ev, l, o) \/ Once(ev, l, o) \/ PrependOnce(ev, l, o)
  \/ \E ev \in Events, l \in Listeners : Off(ev, l)
  \/ \E ev \in Events : OffEvent(ev)
  \/ OffAll

Cbs(l) == [i \in 1..Len(l) |-> l[i].cb]

\* EventEmitter.removeListener on the listener array q: it removes the
\* instance of cb nearest the end of the array, and nothing when cb is not
\* in the array
removeListener(q, cb) ==
  IF \E i \in 1..Len(q) : q[i] = cb
  THEN LET i == CHOOSE i \in 1..Len(q) :
                  q[i] = cb /\ \A j \in (i + 1)..Len(q) : q[j] # cb
       IN  SubSeq(q, 1, i - 1) \o SubSeq(q, i + 1, Len(q))
  ELSE q

\* the listener array EventEmitter has after the call op(cb) on array q
EventEmitterAfter(op, q, cb) ==
  CASE op = "on" -> Append(q, cb)
    [] op = "prependOn" -> <<cb>> \o q
    [] op = "off" -> removeListener(q, cb)

\* no entry of table t has the protect option
NoProtect(t) == \A ev \in DOMAIN t : \A e \in Range(t[ev]) : ~e.protect

C26_MatchesEventEmitter ==
  /\ (last.op \in {"on", "prependOn", "off"}
        /\ NoProtect(last.pre) /\ NoProtect(evinfo))
       => Cbs(ListOf(evinfo, last.ev))
            = EventEmitterAfter(last.op, Cbs(ListOf(last.pre, last.ev)), last.cb)
  /\ (last.op = "emitReturn" /\ NoProtect(evinfo))
       => last.frame.invoked = Ids(last.frame.snap)

(***************************************************************************)
(* C27: within a pass whose callbacks leave the emitter alone, a once      *)
(* entry is in the live table while its own callback is running, and is    *)
(* out of it when the callback of a later entry of the copied list runs.   *)
(***************************************************************************)
C27_OnceRemovedRightAfterFiring ==
  \A k \in 1..Len(stack) :
    /\ stack[k].cur.once => stack[k].cur.id \in IdsOf(evinfo)
    /\ \A p \in 1..(Len(stack[k].invoked) - 1) :
         EntryOf(stack[k].snap, stack[k].invoked[p]).once
           => stack[k].invoked[p] \notin IdsOf(evinfo)

(***************************************************************************)
(* C28: a promise of the promise form of once/prependOnce is created       *)
(* pending and is resolved only by a firing of its own entry, in a pass of *)
(* its event whose payload its filter accepts, with that payload: no       *)
(* registration, off call, emit of another event or emit its filter        *)
(* rejects settles it; once resolved its value never changes.              *)
(***************************************************************************)
C28_PromiseResolvedOnlyByFiring ==
  [][/\ \A id \in DOMAIN promises' \ DOMAIN promises : promises'[id].value = 0
     /\ \A id \in DOMAIN promises :
          /\ id \in DOMAIN promises'
          /\ promises[id].value # 0 => promises'[id].value = promises[id].value
          /\ (promises[id].value = 0 /\ promises'[id].value # 0) =>
               /\ ShimRun
               /\ Top.cur.id = id
               /\ Top.ev = promises[id].ev
               /\ PromiseAccepts(id, Top.data)
               /\ promises'[id].value = Top.data]_vars

\* an emit of the other event has returned after invoking a listener, while
\* one promise is resolved and one, whose filter rejected the payload that
\* resolved the first, is pending with its entry in the table
C28_Witness ==
  /\ last.op = "emitReturn"
  /\ last.ev = "bar"
  /\ last.frame.invoked # <<>>
  /\ \E id \in DOMAIN promises : promises[id].value = 2
  /\ \E id \in DOMAIN promises :
       /\ promises[id].filter = 1
       /\ promises[id].value = 0
       /\ id \in IdsOf(evinfo)

(***************************************************************************)
(* C29: a call of on, prependOn, once(cb) or prependOnce(cb) adds exactly  *)
(* one entry, with the callback, the once flag of the method and the       *)
(* protect and filter options passed, to the list of the named event: at   *)
(* the end for on/once, at the front for prependOn/prependOnce, as a new   *)
(* list when the key is absent.  It keeps the entries the list had, in     *)
(* their order, changes no other key and invokes no callback.              *)
(***************************************************************************)
\* the step adds one new entry for listener l under ev, with the given once
\* flag and the options o, at the front or at the end, and does nothing else
Added(ev, l, once, o, front) ==
  /\ \E e \in Range(ListOf(evinfo', ev)) :
       /\ e.cb = l /\ e.once = once
       /\ e.protect = o.protect /\ e.filter = o.filter
       /\ e.id \notin IdsOf(evinfo)
       /\ ListOf(evinfo', ev) = IF front THEN <<e>> \o ListOf(evinfo, ev)
                                ELSE Append(ListOf(evinfo, ev), e)
  /\ DOMAIN evinfo' = DOMAIN evinfo \cup {ev}
  /\ \A k \in DOMAIN evinfo \ {ev} : evinfo'[k] = evinfo[k]
  /\ stack' = stack

C29_RegistrationAddsOneEntry ==
  [][\A ev \in Events, l \in Listeners, o \in Options :
       /\ On(ev, l, o) => Added(ev, l, FALSE, o, FALSE)
       /\ PrependOn(ev, l, o) => Added(ev, l, FALSE, o, TRUE)
       /\ Once(ev, l, o) => Added(ev, l, TRUE, o, FALSE)
       /\ PrependOnce(ev, l, o) => Added(ev, l, TRUE, o, TRUE)]_vars

\* prependOnce has put a protected once entry with a filter in front of the
\* entry its event had, while the other event has an entry too
C29_Witness ==
  /\ last.op = "prependOnce"
  /\ Len(ListOf(last.pre, last.ev)) = 1
  /\ DOMAIN last.pre = Events
  /\ Len(evinfo[last.ev]) = 2
  /\ evinfo[last.ev][1].once /\ evinfo[last.ev][1].protect
  /\ evinfo[last.ev][1].filter = 1
  /\ evinfo[last.ev][2] = last.pre[last.ev][1]

(***************************************************************************)
(* C30: registrations are not de-duplicated: each on/prependOn call with a *)
(* callback adds one more entry with it, an emit invokes the callback as   *)
(* many times as the list has entries with it, and each off(event,         *)
(* callback) removes exactly one of them, the first, so that k calls are   *)
(* needed to remove k entries.                                             *)
(***************************************************************************)
\* the number of entries of l with callback cb
Count(l, cb) == Cardinality({i \in 1..Len(l) : l[i].cb = cb})

C30_NoDeduplication ==
  /\ last.op \in {"on", "prependOn"} =>
       Count(ListOf(evinfo, last.ev), last.cb)
         = Count(ListOf(last.pre, last.ev), last.cb) + 1
  /\ (last.op = "off" /\ Count(ListOf(last.pre, last.ev), last.cb) > 0) =>
       /\ Count(ListOf(evinfo, last.ev), last.cb)
            = Count(ListOf(last.pre, last.ev), last.cb) - 1
       /\ ListOf(evinfo, last.ev) =
            Without(last.pre[last.ev], findIndex(last.pre[last.ev], last.cb) + 1)
  /\ last.op = "emitReturn" =>
       \A cb \in Listeners :
         Count([i \in 1..Len(last.frame.invoked) |->
                  EntryOf(last.frame.snap, last.frame.invoked[i])], cb)
           = Count(last.frame.snap, cb)

\* off(event, callback) has removed one of three entries with the callback
C30_Witness ==
  /\ last.op = "off"
  /\ Count(ListOf(last.pre, last.ev), last.cb) = 3
  /\ Count(ListOf(evinfo, last.ev), last.cb) = 2

(***************************************************************************)
(* C31: when the callback of a once entry throws during emit, that entry   *)
(* is not removed: it is in the table after the error has propagated (and  *)
(* so fires again on the next emit it accepts), while the once entries     *)
(* that fired earlier in the same pass are out of the table.               *)
(***************************************************************************)
C31_ThrowingOnceIsKept ==
  last.op = "emitThrow" =>
    /\ last.frame.cur.once => last.frame.cur.id \in IdsOf(evinfo)
    /\ \A p \in 1..(Len(last.frame.invoked) - 1) :
         EntryOf(last.frame.snap, last.frame.invoked[p]).once
           => last.frame.invoked[p] \notin IdsOf(evinfo)

(***************************************************************************)
(* C32: an emit call whose callbacks do not emit terminates: the loop      *)
(* moves forward through the list it copied at the call, so a pass invokes *)
(* no entry twice and at most as many entries as the list had when the     *)
(* pass began, even when the invoked listeners register further listeners  *)
(* on the same event.                                                      *)
(***************************************************************************)
C32_PassIsBounded ==
  \A f \in Passes :
    /\ Len(f.invoked) <= Len(f.snap)
    /\ \A p, q \in 1..Len(f.invoked) : p < q => f.invoked[p] # f.invoked[q]
    /\ f.i <= Len(f.snap)
    /\ IdsOfList(f.snap) \subseteq 1..(f.id0 - 1)

\* an emit has returned after invoking the one listener its list had,
\* which registered two listeners on the same event
C32_Witness ==
  /\ last.op = "emitReturn"
  /\ Len(last.frame.snap) = 1
  /\ Len(last.frame.invoked) = 1
  /\ Cardinality({e \in Range(ListOf(evinfo, last.ev)) :
                    e.id >= last.frame.id0 /\ e.nested}) = 2

C34_UntargetedOffIsIdempotent ==
  [][/\ \A ev \in Events :
          (last.op = "offEvent" /\ last.ev = ev
             /\ OffEvent(ev) /\ last'.op = "offEvent" /\ last'.ev = ev)
            => evinfo' = evinfo
     /\ (last.op = "offAll" /\ OffAll /\ last'.op = "offAll")
          => evinfo' = evinfo]_vars

(***************************************************************************)
(* C35: registration followed by exact removal is a round trip: when cb    *)
(* has no entry under event, on(event, cb, opts), or prependOn, once or    *)
(* prependOnce with cb, followed by off(event, cb) gives back the table as *)
(* it was, the key being deleted again if it was absent.                   *)
(***************************************************************************)
C35_RegisterThenOffRestores ==
  [][\A ev \in Events, l \in Listeners :
       (/\ last.op \in {"on", "prependOn", "once", "prependOnce"}
        /\ last.ev = ev /\ last.cb = l
        /\ ~Registered(last.pre, ev, l)
        /\ Off(ev, l) /\ last'.op = "off")
         => evinfo' = last.pre]_vars

\* off(event, cb) has removed the entry of cb, the most recent registration,
\* a protected once entry in front of an entry of another callback, and the
\* list is as it was before
C35_Witness ==
  /\ last.op = "off"
  /\ Len(ListOf(last.pre, last.ev)) = 2
  /\ last.pre[last.ev][1].cb = last.cb
  /\ last.pre[last.ev][1].id = nextId - 1
  /\ last.pre[last.ev][1].once /\ last.pre[last.ev][1].protect
  /\ last.pre[last.ev][2].cb # last.cb
  /\ evinfo[last.ev] = <<last.pre[last.ev][2]>>
  /\ DOMAIN evinfo = {last.ev}

====
